---- MODULE Spec2Model ----
(***************************************************************************)
(* Model of src/src/market_analyzer.py: MarketAnalyzer, the daily market   *)
(* review pipeline.  One run of run_daily_review is a sequential program:  *)
(* get_market_overview (indices, breadth statistics, sector rankings,      *)
(* leverage indicator), search_market_news, generate_market_review.        *)
(* Every external capability (akshare tables, yfinance, the exchange web   *)
(* endpoint, the search service, the text generator) is an environment     *)
(* choice made at the moment the code calls it.                            *)
(*                                                                         *)
(* Numbers.  Prices, balances and caps are integers.  Percent changes of   *)
(* the breadth and sector tables are integers in tenths of a percent.      *)
(* Quotients the code leaves as Python floats without comparing them to a  *)
(* boundary are exact rationals [num, den].  The leverage ratio, which the *)
(* code compares with 3.5 and rounds, is computed in IEEE-754 binary64     *)
(* (53-bit significand, round to nearest even), as CPython computes it.    *)
(***************************************************************************)
EXTENDS Integers, Sequences, FiniteSets, TLC

(***************************************************************************)
(* binary64 arithmetic on positive values.  A double is                    *)
(* [s |-> 53 bits, most significant first, s[1] = 1, e |-> exponent of     *)
(* s[1]], with value  SUM s[i] * 2^(e - i + 1).                            *)
(***************************************************************************)
SigBits == 53

RECURSIVE Rev(_)
Rev(s) == IF s = <<>> THEN <<>> ELSE Rev(Tail(s)) \o <<Head(s)>>

\* binary digits of a natural number, least significant first (0 is <<>>)
RECURSIVE NatBitsLSB(_)
NatBitsLSB(n) == IF n = 0 THEN <<>> ELSE <<n % 2>> \o NatBitsLSB(n \div 2)

\* value of a bit sequence given least significant first
RECURSIVE BitsToNatLSB(_)
BitsToNatLSB(t) == IF t = <<>> THEN 0 ELSE Head(t) + 2 * BitsToNatLSB(Tail(t))

\* the next n binary digits of r / b (0 <= r < b), most significant first
RECURSIVE DivBits(_, _, _)
DivBits(r, b, n) ==
    IF n = 0 THEN <<>>
    ELSE IF 2 * r >= b THEN <<1>> \o DivBits(2 * r - b, b, n - 1)
         ELSE <<0>> \o DivBits(2 * r, b, n - 1)

\* the remainder left after those n digits
RECURSIVE DivRem(_, _, _)
DivRem(r, b, n) ==
    IF n = 0 THEN r
    ELSE IF 2 * r >= b THEN DivRem(2 * r - b, b, n - 1)
         ELSE DivRem(2 * r, b, n - 1)

\* number of doublings of a (0 < a < b) until it reaches b
RECURSIVE LeadShift(_, _)
LeadShift(a, b) == IF 2 * a >= b THEN 1 ELSE 1 + LeadShift(2 * a, b)

RECURSIVE Pow2(_)
Pow2(k) == IF k = 0 THEN 1 ELSE 2 * Pow2(k - 1)

\* s + 1 on a most-significant-first bit sequence; carry out of the top is dropped
RECURSIVE IncBits(_)
IncBits(s) ==
    IF s = <<>> THEN <<>>
    ELSE IF s[Len(s)] = 0 THEN SubSeq(s, 1, Len(s) - 1) \o <<1>>
         ELSE IncBits(SubSeq(s, 1, Len(s) - 1)) \o <<0>>

AllOnes(s) == \A i \in 1..Len(s) : s[i] = 1

\* round to nearest, ties to even: s holds the 53 kept bits, rnd the next bit,
\* sticky whether anything nonzero follows
RoundNearestEven(s, e, rnd, sticky) ==
    IF rnd = 1 /\ (sticky \/ s[Len(s)] = 1)
    THEN IF AllOnes(s) THEN [s |-> <<1>> \o [i \in 1..(Len(s) - 1) |-> 0], e |-> e + 1]
         ELSE [s |-> IncBits(s), e |-> e]
    ELSE [s |-> s, e |-> e]

\* a / b in binary64, for integers a > 0, b > 0 (both exactly representable)
FDiv(a, b) ==
    IF a >= b
    THEN LET n    == a \div b
             ib   == Rev(NatBitsLSB(n))
             k    == SigBits + 1 - Len(ib)
             bits == ib \o DivBits(a % b, b, k)
         IN RoundNearestEven(SubSeq(bits, 1, SigBits), Len(ib) - 1,
                             bits[SigBits + 1], DivRem(a % b, b, k) # 0)
    ELSE LET z    == LeadShift(a, b)
             r    == Pow2(z) * a - b
             bits == <<1>> \o DivBits(r, b, SigBits)
         IN RoundNearestEven(SubSeq(bits, 1, SigBits), 0 - z,
                             bits[SigBits + 1], DivRem(r, b, SigBits) # 0)

\* t * m + carry on a least-significant-first bit sequence, m a small natural
RECURSIVE MulLSB(_, _, _)
MulLSB(t, m, carry) ==
    IF t = <<>> THEN NatBitsLSB(carry)
    ELSE LET v == Head(t) * m + carry
         IN <<v % 2>> \o MulLSB(Tail(t), m, v \div 2)

AnyOne(t) == \E i \in 1..Len(t) : t[i] = 1

\* x * m in binary64, m a natural number >= 1
FMul(x, m) ==
    LET p == MulLSB(Rev(x.s), m, 0)
        k == Len(p) - SigBits
    IN IF k = 0 THEN [s |-> Rev(p), e |-> x.e]
       ELSE RoundNearestEven(Rev(SubSeq(p, k + 1, Len(p))), x.e + k,
                             p[k], AnyOne(SubSeq(p, 1, k - 1)))

RECURSIVE LexGt(_, _)
LexGt(s, t) ==
    IF s = <<>> THEN FALSE
    ELSE IF Head(s) # Head(t) THEN Head(s) > Head(t)
         ELSE LexGt(Tail(s), Tail(t))

\* x > y on positive doubles
FGt(x, y) == x.e > y.e \/ (x.e = y.e /\ LexGt(x.s, y.s))

\* Python round(x, 2) for a positive double x < 2^21, as an integer number of
\* hundredths: the exact value of x * 100 rounded to the nearest integer, ties to
\* even (CPython rounds the exact binary value correctly)
FRound2(x) ==
    LET p     == MulLSB(Rev(x.s), 100, 0)
        sh    == (SigBits - 1) - x.e
        ipart == IF sh >= Len(p) THEN 0 ELSE BitsToNatLSB(SubSeq(p, sh + 1, Len(p)))
        half  == IF sh > Len(p) THEN 0 ELSE p[sh]
        rest  == AnyOne(SubSeq(p, 1, IF sh - 1 > Len(p) THEN Len(p) ELSE sh - 1))
    IN IF half = 1 /\ (rest \/ ipart % 2 = 1) THEN ipart + 1 ELSE ipart


(***************************************************************************)
(* Exact rationals for float quotients that are only stored and printed.   *)
(***************************************************************************)
RECURSIVE Gcd(_, _)
Gcd(a, b) == IF b = 0 THEN a ELSE Gcd(b, a % b)

Abs(x) == IF x < 0 THEN 0 - x ELSE x

\* n / d, d > 0, in lowest terms
Rat(n, d) == LET g == Gcd(Abs(n), d) IN [num |-> n \div g, den |-> d \div g]

RatZero == [num |-> 0, den |-> 1]

Min(a, b) == IF a < b THEN a ELSE b

(***************************************************************************)
(* Values crossing the capability interfaces.  Every value is a record     *)
(* with a kind: a raised exception, None, an empty table, or a table.      *)
(***************************************************************************)
Raise  == [kind |-> "raise"]
None   == [kind |-> "none"]
EmptyDf == [kind |-> "empty"]

\* df is not None and not df.empty
IsData(df) == df.kind = "table" /\ df.rows # <<>>

\* a table cell: a number, a missing/None cell, or text float() cannot parse
Missing == [cell |-> "missing"]
BadCell == [cell |-> "bad"]
Num(v)  == [cell |-> "num", v |-> v]
NaN     == [cell |-> "nan"]

\* MarketAnalyzer.MAIN_INDICES in insertion order
MAIN_INDICES == <<"sh000001", "sz399001", "sz399006", "sh000688", "sh000016", "sh000300">>

\* the five sources wrapped by _call_akshare_with_retry
RetrySources == {"index_spot", "a_spot", "sector", "margin", "sse_summary"}

\* MarketOverview(date=today) with the dataclass defaults
DefaultOverview ==
    [date |-> "today",
     indices |-> <<>>,
     up_count |-> 0, down_count |-> 0, flat_count |-> 0,
     limit_up_count |-> 0, limit_down_count |-> 0,
     total_amount |-> 0, north_flow |-> 0,
     top_sectors |-> <<>>, bottom_sectors |-> <<>>,
     margin_balance |-> 0, total_market_cap |-> 0,
     margin_ratio |-> 0, is_bull_top_warning |-> FALSE,
     margin_data_date |-> ""]

VARIABLES
    pc,        \* control location of the run
    cfg,       \* constructor arguments: search_service and analyzer
    overview,  \* the MarketOverview under construction
    retry,     \* the activation of _call_akshare_with_retry
    loc,       \* locals of the stage in progress
    calls,     \* invocations of each external capability so far
    news,      \* result of search_market_news
    prompt,    \* the prompt built by _build_review_prompt
    report     \* what run_daily_review returned

vars == <<pc, cfg, overview, retry, loc, calls, news, prompt, report>>

IdleRetry == [st |-> "idle", name |-> "", attempts |-> 0, attempt |-> 0,
              result |-> None, log |-> <<>>]

NoLoc == [stage |-> "none"]

Capabilities == RetrySources \cup
    {"yf_ticker", "yf_history", "szse_web", "search", "is_available", "generate"}

NoCalls == [c \in Capabilities |-> 0]

Bump(c) == [calls EXCEPT ![c] = @ + 1]

(***************************************************************************)
(* _call_akshare_with_retry(fn, name, attempts), lines 147-158.            *)
(* retry.log records, in order, each invocation of fn with its attempt     *)
(* number and what it did, and each time.sleep with its duration.          *)
(***************************************************************************)
\* a variant that numbers the attempts from 0, making one invocation more
StartRetryFromZero(name, attempts) ==
    [st |-> "call", name |-> name, attempts |-> attempts, attempt |-> 0,
     result |-> None, log |-> <<>>]

\* the activation record at entry: for attempt in range(1, attempts + 1)
StartRetry(name, attempts) ==
    [st |-> "call", name |-> name, attempts |-> attempts, attempt |-> 1,
     result |-> None, log |-> <<>>]

\* a variant without the cap of 5
BackoffBroken(attempt) == Pow2(attempt)

\* time.sleep(min(2 ** attempt, 5))
Backoff(attempt) == Min(Pow2(attempt), 5)

\* whether the loop sleeps after a failed attempt: if attempt < attempts
SleepsAfter(attempt, attempts) == attempt < attempts

\* one pass of the loop body: return fn(), or catch its exception
call_akshare_with_retry_attempt(D) ==
    /\ retry.st = "call"
    /\ retry.attempt <= retry.attempts
    /\ \E out \in D[retry.name] :
         /\ calls' = Bump(retry.name)
         /\ IF out.kind = "raise"
            THEN retry' = [retry EXCEPT
                     !.log = Append(@, [ev |-> "call", attempt |-> retry.attempt, out |-> out]),
                     !.st = IF SleepsAfter(retry.attempt, retry.attempts) THEN "sleep" ELSE "call",
                     !.attempt = IF SleepsAfter(retry.attempt, retry.attempts) THEN @ ELSE @ + 1]
            ELSE retry' = [retry EXCEPT
                     !.log = Append(@, [ev |-> "call", attempt |-> retry.attempt, out |-> out]),
                     !.st = "ret",
                     !.result = out]
    /\ UNCHANGED <<pc, cfg, overview, loc, news, prompt, report>>

\* the backoff sleep between two attempts
call_akshare_with_retry_sleep ==
    /\ retry.st = "sleep"
    /\ retry' = [retry EXCEPT
                   !.log = Append(@, [ev |-> "sleep", secs |-> Backoff(retry.attempt)]),
                   !.st = "call",
                   !.attempt = @ + 1]
    /\ UNCHANGED <<pc, cfg, overview, loc, calls, news, prompt, report>>

\* the loop is exhausted: log the final failure and return None
call_akshare_with_retry_exhausted ==
    /\ retry.st = "call"
    /\ retry.attempt > retry.attempts
    /\ retry' = [retry EXCEPT !.st = "ret", !.result = None]
    /\ UNCHANGED <<pc, cfg, overview, loc, calls, news, prompt, report>>

RetryStep(D) ==
    \/ call_akshare_with_retry_attempt(D)
    \/ call_akshare_with_retry_sleep
    \/ call_akshare_with_retry_exhausted


(***************************************************************************)
(* _get_main_indices, lines 160-211: the primary batch table.              *)
(* An index table is [kind |-> "table", hasCode, rows]; hasCode says the   *)
(* code column exists.  A row carries the tracked code its code cell       *)
(* contains (decorated: the cell holds more text around it, so only the    *)
(* substring match finds it) and one cell per column the code reads.       *)
(* The percent-change column is written in hundredths of a percent.        *)
(***************************************************************************)
\* float(row.get(col, 0) or 0): a missing or zero cell gives 0
CellRaises(c) == c.cell = "bad"
CellVal(c) == IF c.cell = "num" THEN c.v ELSE 0

IndexCols == {"price", "chg", "pct", "open", "high", "low", "prev", "vol", "amt"}

\* row = df[df[code col] == code]; if row.empty: row = df[... .str.contains(code)];
\* row.iloc[0]: the position of the row used for a tracked code, 0 if none
FindRow(rows, code) ==
    LET exact == {i \in 1..Len(rows) : rows[i].code = code /\ ~rows[i].decorated}
        sub   == {i \in 1..Len(rows) : rows[i].code = code}
        first(S) == CHOOSE i \in S : \A j \in S : i <= j
    IN IF exact # {} THEN first(exact)
       ELSE IF sub # {} THEN first(sub)
       ELSE 0

\* a variant that divides by 1 when the previous close is not positive
AmplitudeDivisorFloor(high, low, prev_close) ==
    IF prev_close > 0 THEN Rat((high - low) * 100, prev_close) ELSE Rat((high - low) * 100, 1)

\* index.amplitude, lines 193-195
Amplitude(high, low, prev_close) ==
    IF prev_close > 0 THEN Rat((high - low) * 100, prev_close) ELSE RatZero

\* MarketIndex(...) built from a primary row, lines 180-195
IndexFromRow(code, row) ==
    [code |-> code,
     current |-> CellVal(row.price), change |-> CellVal(row.chg),
     change_pct |-> Rat(CellVal(row.pct), 100),
     open |-> CellVal(row.open), high |-> CellVal(row.high), low |-> CellVal(row.low),
     prev_close |-> CellVal(row.prev), volume |-> CellVal(row.vol),
     amount |-> CellVal(row.amt),
     amplitude |-> Amplitude(CellVal(row.high), CellVal(row.low), CellVal(row.prev))]

RowRaises(row) == \E c \in IndexCols : CellRaises(row[c])

\* the for loop of lines 171-196 from tracked code k on: the indices built and
\* whether an exception ended the loop
RECURSIVE PrimaryLoop(_, _, _)
PrimaryLoop(df, k, acc) ==
    IF k > Len(MAIN_INDICES) THEN [indices |-> acc, raised |-> FALSE]
    ELSE LET i == FindRow(df.rows, MAIN_INDICES[k])
         IN IF i = 0 THEN PrimaryLoop(df, k + 1, acc)
            ELSE IF RowRaises(df.rows[i]) THEN [indices |-> acc, raised |-> TRUE]
            ELSE PrimaryLoop(df, k + 1, Append(acc, IndexFromRow(MAIN_INDICES[k], df.rows[i])))

\* lines 168-196: what the primary source contributes
PrimaryIndices(df) ==
    IF ~IsData(df) THEN [indices |-> <<>>, raised |-> FALSE]
    ELSE IF ~df.hasCode THEN [indices |-> <<>>, raised |-> TRUE]
    ELSE PrimaryLoop(df, 1, <<>>)

\* a variant that falls back whenever a tracked index is missing
NeedsFallbackIfIncomplete(indices) == Len(indices) < Len(MAIN_INDICES)

\* lines 199 and 208: if not indices
NeedsFallback(indices) == indices = <<>>

\* line 162 and the call of line 168
get_main_indices_begin ==
    /\ pc = "indices"
    /\ retry' = StartRetry("index_spot", 2)
    /\ loc' = [stage |-> "indices", df |-> None, indices |-> <<>>, primary |-> <<>>,
               raised |-> FALSE, via |-> "none", runs |-> 0, k |-> 0,
               tried |-> <<>>, fetched |-> <<>>, good |-> {}]
    /\ pc' = "idx_primary"
    /\ UNCHANGED <<cfg, overview, calls, news, prompt, report>>

\* lines 170-209 up to the choice between returning and the fallback, which
\* starts with the empty list of line 215
get_main_indices_primary ==
    /\ pc = "idx_primary"
    /\ retry.st = "ret"
    /\ LET r == PrimaryIndices(retry.result)
       IN IF NeedsFallback(r.indices)
          THEN /\ loc' = [loc EXCEPT !.df = retry.result, !.primary = r.indices,
                                     !.raised = r.raised,
                                     !.via = IF r.raised THEN "handler" ELSE "normal",
                                     !.runs = @ + 1, !.k = 1]
               /\ pc' = "yf_loop"
          ELSE /\ loc' = [loc EXCEPT !.df = retry.result, !.primary = r.indices,
                                     !.indices = r.indices, !.raised = r.raised]
               /\ pc' = "idx_return"
    /\ retry' = IdleRetry
    /\ UNCHANGED <<cfg, overview, calls, news, prompt, report>>

(***************************************************************************)
(* _get_indices_from_yfinance, lines 213-266.  One step is one pass of the *)
(* for loop: yf.Ticker(code), then ticker.history(period='2d') and the     *)
(* reading of its last two points.  A history is a sequence of at most two *)
(* points, each with one cell per column.                                  *)
(***************************************************************************)
PointCols == {"Close", "Open", "High", "Low", "Volume"}

\* MarketIndex(...) built from a history, lines 237-257 (amplitude is not set)
IndexFromHistory(code, pts) ==
    LET today == pts[Len(pts)]
        prev  == IF Len(pts) > 1 THEN pts[Len(pts) - 1] ELSE today
        price == today.Close.v
        prev_close == prev.Close.v
        change == price - prev_close
    IN [code |-> code,
        current |-> price, change |-> change,
        change_pct |-> IF prev_close > 0 THEN Rat(change * 100, prev_close)
                       ELSE IF prev_close < 0 THEN Rat((0 - change) * 100, 0 - prev_close)
                       ELSE RatZero,
        open |-> today.Open.v, high |-> today.High.v, low |-> today.Low.v,
        prev_close |-> prev_close, volume |-> today.Volume.v,
        amount |-> 0, amplitude |-> RatZero]

\* reading the fields raises (float() of an unparsable cell)
HistoryRaises(pts) ==
    LET today == pts[Len(pts)]
        prev  == IF Len(pts) > 1 THEN pts[Len(pts) - 1] ELSE today
    IN \/ \E c \in PointCols : CellRaises(today[c])
       \/ CellRaises(prev.Close)

\* yf.Ticker(...) of line 231 stands outside the inner try of line 232: when it
\* raises, the outer except of line 263 ends the loop and line 266 returns
indices_from_yfinance_step(D) ==
    /\ pc = "yf_loop"
    /\ loc.k <= Len(MAIN_INDICES)
    /\ LET code == MAIN_INDICES[loc.k]
           last == loc.k = Len(MAIN_INDICES)
       IN \E out \in D.yf :
            IF out.kind = "ticker_raise"
            THEN /\ calls' = Bump("yf_ticker")
                 /\ loc' = [loc EXCEPT !.tried = Append(@, code)]
                 /\ pc' = "idx_return"
            ELSE LET ok == out.kind = "hist" /\ out.pts # <<>> /\ ~HistoryRaises(out.pts)
                 IN /\ calls' = [calls EXCEPT !["yf_ticker"] = @ + 1,
                                              !["yf_history"] = @ + 1]
                    /\ loc' = [loc EXCEPT
                          !.tried = Append(@, code),
                          !.fetched = Append(@, code),
                          !.good = IF ok THEN @ \cup {code} ELSE @,
                          !.indices = IF ok THEN Append(@, IndexFromHistory(code, out.pts))
                                      ELSE @,
                          !.k = @ + 1]
                    /\ pc' = IF last THEN "idx_return" ELSE pc
    /\ UNCHANGED <<cfg, overview, retry, news, prompt, report>>

\* a variant in which an empty result of the fallback raises after line 200, so
\* that the handler of line 206 runs the fallback again
get_main_indices_return_after_handler ==
    /\ pc = "idx_return"
    /\ IF loc.indices = <<>> /\ loc.runs = 1 /\ loc.via = "normal"
       THEN /\ loc' = [loc EXCEPT !.runs = @ + 1, !.via = "handler", !.k = 1]
            /\ pc' = "yf_loop"
            /\ UNCHANGED overview
       ELSE /\ overview' = [overview EXCEPT !.indices = loc.indices]
            /\ loc' = NoLoc
            /\ pc' = "statistics"
    /\ UNCHANGED <<cfg, retry, calls, news, prompt, report>>

\* a variant that goes on with the sector stage, leaving the breadth stage out
get_main_indices_return_to_sectors ==
    /\ pc = "idx_return"
    /\ overview' = [overview EXCEPT !.indices = loc.indices]
    /\ loc' = NoLoc
    /\ pc' = "sectors"
    /\ UNCHANGED <<cfg, retry, calls, news, prompt, report>>

\* line 211 and line 131: overview.indices = self._get_main_indices()
get_main_indices_return ==
    /\ pc = "idx_return"
    /\ overview' = [overview EXCEPT !.indices = loc.indices]
    /\ loc' = NoLoc
    /\ pc' = "statistics"
    /\ UNCHANGED <<cfg, retry, calls, news, prompt, report>>

IndicesStep(D) ==
    \/ get_main_indices_begin
    \/ get_main_indices_primary
    \/ indices_from_yfinance_step(D)
    \/ get_main_indices_return


(***************************************************************************)
(* _get_market_statistics, lines 268-300.  A full-market table is          *)
(* [kind |-> "table", hasChange, hasAmount, rows]; a row has a change cell *)
(* (tenths of a percent) and an amount cell (yuan).                        *)
(***************************************************************************)
\* pd.to_numeric(col, errors='coerce'): anything that is not a number becomes NaN
ToNumeric(c) == IF c.cell = "num" THEN c ELSE NaN

IsNum(c) == c.cell = "num"

\* the rows a comparison of df[col] can select: a comparison is false on NaN
NumericRows(rows) == {i \in 1..Len(rows) : IsNum(ToNumeric(rows[i].chg))}

\* the limit threshold 9.9 of lines 286-287, in tenths of a percent
LimitPct == 99

\* lines 281-283
IsUp(v) == v > 0

IsDown(v) == v < 0

IsFlat(v) == v = 0

\* a variant with a strict limit-up threshold
IsLimitUpStrict(v) == v > LimitPct

\* lines 286-287
IsLimitUp(v) == v >= LimitPct

IsLimitDown(v) == v <= 0 - LimitPct

\* the divisor of line 293, yuan per hundred million
HundredMillion == 100000000

\* df[amount].sum(), which skips NaN
RECURSIVE SumAmount(_)
SumAmount(rows) ==
    IF rows = <<>> THEN 0
    ELSE (IF IsNum(ToNumeric(Head(rows).amt)) THEN Head(rows).amt.v ELSE 0)
         + SumAmount(Tail(rows))

\* lines 276-293 applied to the fetched value
MarketStatistics(ov, df) ==
    IF ~IsData(df) THEN ov
    ELSE LET a == IF df.hasChange
                  THEN [ov EXCEPT
                          !.up_count = Cardinality({i \in NumericRows(df.rows) : IsUp(df.rows[i].chg.v)}),
                          !.down_count = Cardinality({i \in NumericRows(df.rows) : IsDown(df.rows[i].chg.v)}),
                          !.flat_count = Cardinality({i \in NumericRows(df.rows) : IsFlat(df.rows[i].chg.v)}),
                          !.limit_up_count = Cardinality({i \in NumericRows(df.rows) : IsLimitUp(df.rows[i].chg.v)}),
                          !.limit_down_count = Cardinality({i \in NumericRows(df.rows) : IsLimitDown(df.rows[i].chg.v)})]
                  ELSE ov
         IN IF df.hasAmount
            THEN [a EXCEPT !.total_amount = SumAmount(df.rows) \div HundredMillion]
            ELSE a

get_market_statistics_begin ==
    /\ pc = "statistics"
    /\ retry' = StartRetry("a_spot", 2)
    /\ loc' = [stage |-> "statistics", df |-> None, before |-> overview]
    /\ pc' = "stat_df"
    /\ UNCHANGED <<cfg, overview, calls, news, prompt, report>>

get_market_statistics_apply ==
    /\ pc = "stat_df"
    /\ retry.st = "ret"
    /\ overview' = MarketStatistics(overview, retry.result)
    /\ loc' = [loc EXCEPT !.df = retry.result]
    /\ retry' = IdleRetry
    /\ pc' = "sectors"
    /\ UNCHANGED <<cfg, calls, news, prompt, report>>

StatisticsStep ==
    \/ get_market_statistics_begin
    \/ get_market_statistics_apply

(***************************************************************************)
(* _get_sector_rankings, lines 302-334.  A sector table is                 *)
(* [kind |-> "table", hasChange, hasName, rows]; a row has a name and a    *)
(* change cell (tenths of a percent).                                      *)
(***************************************************************************)
\* df.dropna(subset=[change]) after to_numeric
RECURSIVE DropNa(_)
DropNa(rows) ==
    IF rows = <<>> THEN <<>>
    ELSE IF IsNum(ToNumeric(Head(rows).chg)) THEN <<Head(rows)>> \o DropNa(Tail(rows))
         ELSE DropNa(Tail(rows))

RemoveAt(rows, i) == SubSeq(rows, 1, i - 1) \o SubSeq(rows, i + 1, Len(rows))

\* a variant that keeps the last of tied rows first
RECURSIVE NLargestKeepLast(_, _)
NLargestKeepLast(rows, n) ==
    IF n = 0 \/ rows = <<>> THEN <<>>
    ELSE LET i == CHOOSE i \in 1..Len(rows) :
                    \A j \in 1..Len(rows) :
                        \/ rows[i].chg.v > rows[j].chg.v
                        \/ (rows[i].chg.v = rows[j].chg.v /\ i >= j)
         IN <<rows[i]>> \o NLargestKeepLast(RemoveAt(rows, i), n - 1)

\* DataFrame.nlargest(n, col), keep='first': descending, ties in row order
RECURSIVE NLargest(_, _)
NLargest(rows, n) ==
    IF n = 0 \/ rows = <<>> THEN <<>>
    ELSE LET i == CHOOSE i \in 1..Len(rows) :
                    \A j \in 1..Len(rows) :
                        \/ rows[i].chg.v > rows[j].chg.v
                        \/ (rows[i].chg.v = rows[j].chg.v /\ i <= j)
         IN <<rows[i]>> \o NLargest(RemoveAt(rows, i), n - 1)

\* DataFrame.nsmallest(n, col), keep='first': ascending, ties in row order
RECURSIVE NSmallest(_, _)
NSmallest(rows, n) ==
    IF n = 0 \/ rows = <<>> THEN <<>>
    ELSE LET i == CHOOSE i \in 1..Len(rows) :
                    \A j \in 1..Len(rows) :
                        \/ rows[i].chg.v < rows[j].chg.v
                        \/ (rows[i].chg.v = rows[j].chg.v /\ i <= j)
         IN <<rows[i]>> \o NSmallest(RemoveAt(rows, i), n - 1)

\* the 5 of lines 317 and 324
TopN == 5

SectorEntries(rows) ==
    [i \in 1..Len(rows) |-> [name |-> rows[i].name, change_pct |-> rows[i].chg.v]]

\* lines 310-328 applied to the fetched value; a missing name column raises
\* KeyError while the first list is built, before either assignment
SectorRankings(ov, df) ==
    IF ~IsData(df) \/ ~df.hasChange THEN ov
    ELSE LET valid == DropNa(df.rows)
         IN IF ~df.hasName /\ valid # <<>> THEN ov
            ELSE [ov EXCEPT
                    !.top_sectors = SectorEntries(NLargest(valid, TopN)),
                    !.bottom_sectors = SectorEntries(NSmallest(valid, TopN))]

get_sector_rankings_begin ==
    /\ pc = "sectors"
    /\ retry' = StartRetry("sector", 2)
    /\ loc' = [stage |-> "sectors", df |-> None, before |-> overview]
    /\ pc' = "sector_df"
    /\ UNCHANGED <<cfg, overview, calls, news, prompt, report>>

get_sector_rankings_apply ==
    /\ pc = "sector_df"
    /\ retry.st = "ret"
    /\ overview' = SectorRankings(overview, retry.result)
    /\ loc' = [loc EXCEPT !.df = retry.result]
    /\ retry' = IdleRetry
    /\ pc' = "leverage"
    /\ UNCHANGED <<cfg, calls, news, prompt, report>>

SectorStep ==
    \/ get_sector_rankings_begin
    \/ get_sector_rankings_apply


(***************************************************************************)
(* _get_bull_market_indicator, lines 357-393, with _get_margin_balance     *)
(* (395-424), _get_total_market_cap (426-451), _get_sse_market_cap         *)
(* (453-475) and _get_szse_market_cap (477-564).  Balances and caps are    *)
(* integers (hundred million yuan).                                        *)
(***************************************************************************)
\* positions of the rows that can come first after
\* df.sort_values(date, ascending=False): those with the latest date
LatestRows(df) ==
    IF df.hasDate
    THEN {i \in 1..Len(df.rows) : \A j \in 1..Len(df.rows) : df.rows[i].date >= df.rows[j].date}
    ELSE {1}

\* lines 406-424 with row i as df.iloc[0]: float() of a cell that is not a
\* number raises and the handler returns 0.0
MarginBalanceAt(df, i) ==
    IF ~IsData(df) \/ ~df.hasBalance THEN 0
    ELSE IF IsNum(df.rows[i].bal) THEN df.rows[i].bal.v ELSE 0

\* lines 458-475.  A summary table is [kind |-> "table", hasItem, rows, cols]:
\* rows carry the item label and the stock cell, cols the other columns with
\* whether the name looks like a market cap, whether the dtype is numeric, and
\* the column sum
SseMarketCap(df) ==
    IF ~IsData(df) \/ ~df.hasItem THEN 0
    ELSE LET cap  == {i \in 1..Len(df.rows) : df.rows[i].item = "total_cap"}
             alt  == {i \in 1..Len(df.cols) : df.cols[i].capname}
             first(S) == CHOOSE i \in S : \A j \in S : i <= j
         IN IF cap # {}
            THEN (IF CellRaises(df.rows[first(cap)].stock) THEN 0
                  ELSE CellVal(df.rows[first(cap)].stock))
            ELSE IF alt # {}
                 THEN (IF df.cols[first(alt)].numeric THEN df.cols[first(alt)].sum ELSE 0)
                 ELSE 0

\* lines 512-529: the first row of the stock category whose cap text parses.
\* A cap text is [s |-> "empty"], [s |-> "bad"] or [s |-> "num", v, commas, unit]:
\* the replace() calls strip separators and the unit, float() yields v
RECURSIVE SzseScan(_)
SzseScan(rows) ==
    IF rows = <<>> THEN 0
    ELSE IF Head(rows).stock /\ Head(rows).cap.s = "num" THEN Head(rows).cap.v
         ELSE SzseScan(Tail(rows))

\* lines 506-564 applied to the endpoint's answer
SzseMarketCap(resp) ==
    IF resp.kind # "json" \/ ~resp.isList THEN 0 ELSE SzseScan(resp.rows)

\* the literal 3.5 of line 383
WarnThreshold == FDiv(35, 10)

\* a variant that stores the market cap when the margin balance is not positive
BullIndicatorNoGuard(ov, margin_balance, total_market_cap) ==
    IF total_market_cap > 0
    THEN IF margin_balance > 0
         THEN LET margin_ratio == FMul(FDiv(margin_balance, total_market_cap), 100)
              IN [ov EXCEPT
                    !.margin_balance = margin_balance,
                    !.total_market_cap = total_market_cap,
                    !.margin_ratio = FRound2(margin_ratio),
                    !.is_bull_top_warning = FGt(margin_ratio, WarnThreshold)]
         ELSE [ov EXCEPT !.total_market_cap = total_market_cap]
    ELSE ov

\* lines 377-383
BullIndicator(ov, margin_balance, total_market_cap) ==
    IF margin_balance > 0 /\ total_market_cap > 0
    THEN LET margin_ratio == FMul(FDiv(margin_balance, total_market_cap), 100)
         IN [ov EXCEPT
               !.margin_balance = margin_balance,
               !.total_market_cap = total_market_cap,
               !.margin_ratio = FRound2(margin_ratio),
               !.is_bull_top_warning = FGt(margin_ratio, WarnThreshold)]
    ELSE ov

\* line 372 into _get_margin_balance, line 404
get_margin_balance_begin ==
    /\ pc = "leverage"
    /\ retry' = StartRetry("margin", 2)
    /\ loc' = [stage |-> "leverage", margin |-> 0, sse |-> 0, szse |-> 0,
               total |-> 0, before |-> overview]
    /\ pc' = "margin_df"
    /\ UNCHANGED <<cfg, overview, calls, news, prompt, report>>

\* lines 406-424, then line 375 into _get_sse_market_cap, line 456
get_margin_balance_apply ==
    /\ pc = "margin_df"
    /\ retry.st = "ret"
    /\ \E i \in (IF IsData(retry.result) THEN LatestRows(retry.result) ELSE {1}) :
         loc' = [loc EXCEPT !.margin = MarginBalanceAt(retry.result, i)]
    /\ retry' = StartRetry("sse_summary", 2)
    /\ pc' = "sse_df"
    /\ UNCHANGED <<cfg, overview, calls, news, prompt, report>>

\* lines 458-475 and line 440
get_sse_market_cap_apply ==
    /\ pc = "sse_df"
    /\ retry.st = "ret"
    /\ loc' = [loc EXCEPT !.sse = SseMarketCap(retry.result),
                          !.total = SseMarketCap(retry.result)]
    /\ retry' = IdleRetry
    /\ pc' = "szse"
    /\ UNCHANGED <<cfg, overview, calls, news, prompt, report>>

\* _get_szse_market_cap: one requests.get, no retry; then line 444
get_szse_market_cap(D) ==
    /\ pc = "szse"
    /\ \E resp \in D.szse :
         loc' = [loc EXCEPT !.szse = SzseMarketCap(resp),
                            !.total = @ + SzseMarketCap(resp)]
    /\ calls' = Bump("szse_web")
    /\ pc' = "combine"
    /\ UNCHANGED <<cfg, overview, retry, news, prompt, report>>

\* a variant that also stamps the snapshot with the date of the margin data
get_bull_market_indicator_combine_dated ==
    /\ pc = "combine"
    /\ overview' = [BullIndicator(overview, loc.margin, loc.total)
                       EXCEPT !.margin_data_date = "latest"]
    /\ pc' = "news"
    /\ UNCHANGED <<cfg, retry, loc, calls, news, prompt, report>>

\* lines 377-390
get_bull_market_indicator_combine ==
    /\ pc = "combine"
    /\ overview' = BullIndicator(overview, loc.margin, loc.total)
    /\ pc' = "news"
    /\ UNCHANGED <<cfg, retry, loc, calls, news, prompt, report>>

LeverageStep(D) ==
    \/ get_margin_balance_begin
    \/ get_margin_balance_apply
    \/ get_sse_market_cap_apply
    \/ get_szse_market_cap(D)
    \/ get_bull_market_indicator_combine


(***************************************************************************)
(* search_market_news, lines 566-608.  loc.requests records each call of   *)
(* search_service.search_stock_news with its topic and max_results.        *)
(***************************************************************************)
\* the three search_queries of lines 582-586, by topic
SearchTopics == <<"review", "trend", "hot_sectors">>

\* max_results=3 of line 596
MaxResults == 3

\* line 573: if not self.search_service: return []
search_market_news_begin ==
    /\ pc = "news"
    /\ IF ~cfg.search
       THEN /\ news' = <<>>
            /\ loc' = [stage |-> "news", q |-> 0, all_news |-> <<>>, requests |-> <<>>,
                       answers |-> <<>>]
            /\ pc' = "review"
       ELSE /\ loc' = [stage |-> "news", q |-> 1, all_news |-> <<>>, requests |-> <<>>,
                       answers |-> <<>>]
            /\ pc' = "news_query"
            /\ UNCHANGED news
    /\ UNCHANGED <<cfg, overview, retry, calls, prompt, report>>

\* one pass of the loop of lines 591-601; an exception ends the loop and
\* line 608 returns what was collected
search_market_news_query(D) ==
    /\ pc = "news_query"
    /\ loc.q <= Len(SearchTopics)
    /\ \E out \in D.search :
         LET req  == [topic |-> SearchTopics[loc.q], max_results |-> MaxResults]
             got  == IF out.kind = "resp" THEN out.results ELSE <<>>
             all  == loc.all_news \o got
             stop == out.kind = "raise" \/ loc.q = Len(SearchTopics)
         IN /\ loc' = [loc EXCEPT !.q = @ + 1, !.all_news = all,
                                  !.requests = Append(@, req),
                                  !.answers = Append(@, out)]
            /\ IF stop THEN news' = all /\ pc' = "review"
               ELSE UNCHANGED news /\ pc' = pc
    /\ calls' = Bump("search")
    /\ UNCHANGED <<cfg, overview, retry, prompt, report>>

NewsStep(D) ==
    \/ search_market_news_begin
    \/ search_market_news_query(D)

(***************************************************************************)
(* Report rendering: _format_margin_data_for_prompt (659-668),             *)
(* _build_review_prompt (670-761), _format_bull_top_indicator (763-799),   *)
(* _generate_template_review (801-859).  A rendered text is a record of    *)
(* its parts: NoData is a placeholder the code prints, Shown(v) a number   *)
(* put in the text by a format specification, Lines(l) the concatenation   *)
(* of the lines l, the empty string when l is empty.                       *)
(***************************************************************************)
\* the placeholder texts of lines 662, 710, 722, 723, 726 and 774
NoData == [kind |-> "no_data"]

\* a number formatted into the text
Shown(v) == [kind |-> "number", v |-> v]

\* text built by appending or joining the parts l
Lines(l) == [kind |-> "lines", lines |-> l]

RatGt(r, n) == r.num > n * r.den
RatLt(r, n) == r.num < n * r.den

Direction(idx) ==
    IF RatGt(idx.change_pct, 0) THEN "up" ELSE IF RatLt(idx.change_pct, 0) THEN "down" ELSE "flat"

IndexLine(idx) ==
    [code |-> idx.code, current |-> idx.current, direction |-> Direction(idx),
     abs_pct |-> [num |-> Abs(idx.change_pct.num), den |-> idx.change_pct.den]]

Take(s, n) == SubSeq(s, 1, Min(n, Len(s)))

\* _format_margin_data_for_prompt
FormatMarginDataForPrompt(ov) ==
    IF ov.margin_ratio <= 0 THEN NoData
    ELSE [kind |-> "values", margin_balance |-> ov.margin_balance,
          total_market_cap |-> ov.total_market_cap, margin_ratio |-> ov.margin_ratio,
          warning |-> ov.is_bull_top_warning]

\* the seven headings of the outline, lines 736-755
PromptOutline ==
    <<"summary", "index_commentary", "capital_flow", "leverage_analysis",
      "hot_sectors", "outlook", "risk">>

\* _build_review_prompt
BuildReviewPrompt(ov, nws) ==
    LET lines == [i \in 1..Len(ov.indices) |-> IndexLine(ov.indices[i])]
    IN [kind |-> "prompt",
        date |-> ov.date,
        indices |-> IF lines = <<>> THEN NoData ELSE Lines(lines),
        up_count |-> ov.up_count, down_count |-> ov.down_count,
        flat_count |-> ov.flat_count,
        limit_up_count |-> ov.limit_up_count, limit_down_count |-> ov.limit_down_count,
        total_amount |-> Shown(ov.total_amount), north_flow |-> Shown(ov.north_flow),
        margin |-> FormatMarginDataForPrompt(ov),
        top |-> IF ov.top_sectors = <<>> THEN NoData ELSE Lines(Take(ov.top_sectors, 3)),
        bottom |-> IF ov.bottom_sectors = <<>> THEN NoData
                   ELSE Lines(Take(ov.bottom_sectors, 3)),
        news |-> IF nws = <<>> THEN NoData ELSE Lines(Take(nws, 6)),
        guard |-> lines = <<>>,
        outline |-> PromptOutline]

\* a variant that picks the warning banner from the stored ratio
FormatBullTopIndicatorByRatio(ov) ==
    IF ov.margin_ratio <= 0 THEN NoData
    ELSE [kind |-> "table", margin_balance |-> ov.margin_balance,
          total_market_cap |-> ov.total_market_cap, margin_ratio |-> ov.margin_ratio,
          status |-> IF ov.margin_ratio >= 350 THEN "warning"
                     ELSE IF ov.margin_ratio > 300 THEN "watch"
                     ELSE IF ov.margin_ratio > 250 THEN "normal"
                     ELSE "cool"]

\* _format_bull_top_indicator; margin_ratio is in hundredths of a percent
FormatBullTopIndicator(ov) ==
    IF ov.margin_ratio <= 0 THEN NoData
    ELSE [kind |-> "table", margin_balance |-> ov.margin_balance,
          total_market_cap |-> ov.total_market_cap, margin_ratio |-> ov.margin_ratio,
          status |-> IF ov.is_bull_top_warning THEN "warning"
                     ELSE IF ov.margin_ratio > 300 THEN "watch"
                     ELSE IF ov.margin_ratio > 250 THEN "normal"
                     ELSE "cool"]

\* the code the template looks for in line 805
MoodIndexCode == "000001"

\* lines 805-816
MarketMood(ov) ==
    LET hits == {i \in 1..Len(ov.indices) : ov.indices[i].code = MoodIndexCode}
    IN IF hits = {} THEN "choppy"
       ELSE LET sh == ov.indices[CHOOSE i \in hits : \A j \in hits : i <= j]
            IN IF RatGt(sh.change_pct, 1) THEN "strong_rally"
               ELSE IF RatGt(sh.change_pct, 0) THEN "mild_rally"
               ELSE IF RatGt(sh.change_pct, 0 - 1) THEN "mild_pullback"
               ELSE "marked_decline"

\* a variant that follows the outline of the prompt
TemplateSectionsOfOutline ==
    <<"summary", "index_commentary", "capital_flow", "leverage_analysis",
      "hot_sectors", "outlook", "risk">>

\* the six headings of the template, lines 830-853
TemplateSections ==
    <<"summary", "indices", "statistics", "leverage", "sectors", "risk">>

Names(entries) == [i \in 1..Len(entries) |-> entries[i].name]

\* datetime.now().strftime('%H:%M') of line 857: the times of day a rendering
\* can fall on
Clock == {"15:05", "15:06"}

\* a variant whose heading shows the time of rendering, not the snapshot's date
GenerateTemplateReviewNowHeading(ov, nws, now) ==
    [kind |-> "template",
     heading |-> now,
     mood |-> MarketMood(ov),
     indices |-> Lines([i \in 1..Len(Take(ov.indices, 4)) |-> IndexLine(ov.indices[i])]),
     up_count |-> ov.up_count, down_count |-> ov.down_count,
     limit_up_count |-> ov.limit_up_count, limit_down_count |-> ov.limit_down_count,
     total_amount |-> Shown(ov.total_amount), north_flow |-> Shown(ov.north_flow),
     bull |-> FormatBullTopIndicator(ov),
     top |-> Lines(Names(Take(ov.top_sectors, 3))),
     bottom |-> Lines(Names(Take(ov.bottom_sectors, 3))),
     sections |-> TemplateSections,
     time |-> now]

\* _generate_template_review rendered at time of day now; time is the trailing
\* line of line 857
GenerateTemplateReview(ov, nws, now) ==
    [kind |-> "template",
     heading |-> ov.date,
     mood |-> MarketMood(ov),
     indices |-> Lines([i \in 1..Len(Take(ov.indices, 4)) |-> IndexLine(ov.indices[i])]),
     up_count |-> ov.up_count, down_count |-> ov.down_count,
     limit_up_count |-> ov.limit_up_count, limit_down_count |-> ov.limit_down_count,
     total_amount |-> Shown(ov.total_amount), north_flow |-> Shown(ov.north_flow),
     bull |-> FormatBullTopIndicator(ov),
     top |-> Lines(Names(Take(ov.top_sectors, 3))),
     bottom |-> Lines(Names(Take(ov.bottom_sectors, 3))),
     sections |-> TemplateSections,
     time |-> now]

(***************************************************************************)
(* generate_market_review, lines 610-657.  A generated text is             *)
(* [pad, body]: pad says it has surrounding white space, body is "" or the *)
(* prose.                                                                  *)
(***************************************************************************)
NoReport == [kind |-> "none"]
NoPrompt == [kind |-> "none"]

\* str.strip()
Strip(t) == [pad |-> FALSE, body |-> t.body]

\* truth value of a str
Truthy(t) == t.pad \/ t.body # ""

\* lines 637-646: the review obtained from the generator's answer, None when
\* there is none; the OpenAI-compatible call returns its text as it is, the
\* Gemini branch strips response.text
ReviewOf(out, use_openai) ==
    IF out.kind # "text" THEN None
    ELSE IF use_openai THEN out
    ELSE IF Truthy(out.text) THEN [kind |-> "text", text |-> Strip(out.text)]
    ELSE None

\* line 648: if review
ReviewOk(review) == review.kind = "text" /\ Truthy(review.text)

\* line 621, and lines 623-626
generate_market_review_begin(D) ==
    /\ pc = "review"
    /\ IF cfg.analyzer = "none"
       THEN /\ \E now \in Clock : report' = GenerateTemplateReview(overview, news, now)
            /\ pc' = "done"
            /\ loc' = [stage |-> "review", avail |-> [kind |-> "absent"], gen |-> None]
            /\ UNCHANGED <<calls, prompt>>
       ELSE \E a \in D.avail :
              /\ calls' = Bump("is_available")
              /\ loc' = [stage |-> "review", avail |-> a, gen |-> None]
              /\ IF a.kind = "raise"
                 THEN pc' = "raised" /\ UNCHANGED <<report, prompt>>
                 ELSE IF ~a.v
                 THEN /\ \E now \in Clock :
                            report' = GenerateTemplateReview(overview, news, now)
                      /\ pc' = "done"
                      /\ UNCHANGED prompt
                 ELSE /\ prompt' = BuildReviewPrompt(overview, news)
                      /\ pc' = "generate"
                      /\ UNCHANGED report
    /\ UNCHANGED <<cfg, overview, retry, news>>

\* lines 628-657: the single call of the generator and the choice of the report
generate_market_review_generate(D) ==
    /\ pc = "generate"
    /\ \E out \in D.gen :
         LET review == ReviewOf(out, cfg.analyzer = "openai")
         IN /\ \E now \in Clock :
                  report' = IF out.kind # "raise" /\ ReviewOk(review)
                            THEN [kind |-> "generated", text |-> review.text]
                            ELSE GenerateTemplateReview(overview, news, now)
            /\ loc' = [loc EXCEPT !.gen = out]
    /\ calls' = Bump("generate")
    /\ pc' = "done"
    /\ UNCHANGED <<cfg, overview, retry, news, prompt>>

ReviewStep(D) ==
    \/ generate_market_review_begin(D)
    \/ generate_market_review_generate(D)


(***************************************************************************)
(* The environment: for each capability, the outcomes a call can have.     *)
(***************************************************************************)
\* longest tables explored, by stage
MaxIdxRows == 2
MaxStatRows == 2
MaxMarginRows == 2
MaxSzseRows == 2
MaxSectorRows == 2
\* largest attempts argument explored for _call_akshare_with_retry on its own
MaxAttempts == 4

\* sequences over S of length 1..n
RECURSIVE SeqsUpTo(_, _)
SeqsUpTo(S, n) ==
    IF n = 0 THEN {}
    ELSE LET shorter == SeqsUpTo(S, n - 1)
         IN {<<x>> : x \in S} \cup shorter \cup {Append(q, x) : q \in shorter, x \in S}

\* the members of a set of naturals in increasing order
RECURSIVE Sorted(_)
Sorted(S) ==
    IF S = {} THEN <<>>
    ELSE LET m == CHOOSE x \in S : \A y \in S : x <= y
         IN <<m>> \o Sorted(S \ {m})

IdxRow(code, decorated, prev) ==
    [code |-> code, decorated |-> decorated,
     price |-> Num(102), chg |-> Num(2), pct |-> Num(200), open |-> Num(100),
     high |-> Num(104), low |-> Num(99), prev |-> prev, vol |-> Num(5), amt |-> Num(7)]

IdxTable(rows) == [kind |-> "table", hasCode |-> TRUE, rows |-> rows]

\* the table holding a plain row for each tracked code whose position is in S
SubsetTable(S) ==
    LET ks == Sorted(S)
    IN IdxTable([i \in 1..Len(ks) |-> IdxRow(MAIN_INDICES[ks[i]], FALSE, Num(100))])

NoCodeTable ==
    [kind |-> "table", hasCode |-> FALSE, rows |-> <<IdxRow("sh000001", FALSE, Num(100))>>]

DetailRows ==
    {IdxRow(c, d, p) : c \in {"sh000001", "sz399001"}, d \in BOOLEAN,
                       p \in {Missing, Num(0), Num(100)}}

\* tables with a row of a code that is not tracked
UntrackedTables ==
    {IdxTable(<<IdxRow("sh000905", FALSE, Num(100))>>),
     IdxTable(<<IdxRow("sh000905", FALSE, Num(100)), IdxRow("sz399001", FALSE, Num(100))>>)}

\* tables with a row whose cells cannot be read as numbers
UnreadableTables ==
    {IdxTable(<<IdxRow("sh000001", FALSE, BadCell)>>),
     IdxTable(<<IdxRow("sh000001", FALSE, Num(100)), IdxRow("sz399001", FALSE, BadCell)>>),
     IdxTable(<<IdxRow("sz399001", FALSE, BadCell), IdxRow("sh000001", FALSE, Num(100))>>)}

IndexTables ==
    {SubsetTable(S) : S \in (SUBSET (1..Len(MAIN_INDICES))) \ {{}}}
    \cup {IdxTable(r) : r \in SeqsUpTo(DetailRows, MaxIdxRows)}
    \cup UntrackedTables \cup UnreadableTables
    \cup {NoCodeTable}

Point(close) ==
    [Close |-> close, Open |-> Num(100), High |-> Num(104), Low |-> Num(99),
     Volume |-> Num(5)]

Hist(pts) == [kind |-> "hist", pts |-> pts]

Histories ==
    {Hist(<<>>), Hist(<<Point(Num(102))>>), Hist(<<Point(Num(100)), Point(Num(102))>>),
     Hist(<<Point(Num(0)), Point(Num(102))>>), Hist(<<Point(Num(100)), Point(BadCell)>>)}

YfOutcomes == {[kind |-> "ticker_raise"], [kind |-> "history_raise"]} \cup Histories

StatRow(chg, amt) == [chg |-> chg, amt |-> amt]

StatTable(hc, ha, rows) == [kind |-> "table", hasChange |-> hc, hasAmount |-> ha, rows |-> rows]

\* the changes 10.0, 9.9, 5, 0, -3, -9.9, -10, NaN in tenths of a percent
ExampleChanges ==
    <<Num(100), Num(99), Num(50), Num(0), Num(0 - 30), Num(0 - 99), Num(0 - 100), NaN>>

ExampleTable ==
    StatTable(TRUE, TRUE,
              [i \in 1..Len(ExampleChanges) |-> StatRow(ExampleChanges[i], Num(HundredMillion))])

StatRows ==
    {StatRow(c, a) : c \in {ExampleChanges[i] : i \in 1..Len(ExampleChanges)} \cup {BadCell},
                     a \in {Num(HundredMillion), NaN}}

StatTables ==
    {StatTable(hc, ha, r) : hc \in BOOLEAN, ha \in BOOLEAN, r \in SeqsUpTo(StatRows, MaxStatRows)}
    \cup {ExampleTable}

SectorRow(name, chg) == [name |-> name, chg |-> chg]

SectorTable(hc, hn, rows) == [kind |-> "table", hasChange |-> hc, hasName |-> hn, rows |-> rows]

SectorRows ==
    {SectorRow(n, c) : n \in {"a", "b"}, c \in {Num(10), Num(0 - 10), NaN, BadCell}}

\* the tables of six named rows whose changes are 0, 1.0 or not a number
LongSectorTables ==
    LET names == <<"s1", "s2", "s3", "s4", "s5", "s6">>
    IN {SectorTable(TRUE, TRUE, [i \in 1..Len(names) |-> SectorRow(names[i], f[i])]) :
           f \in [1..Len(names) -> {Num(0), Num(10), NaN}]}

\* seven rows, all valid, with ties at both ends
SevenSectorTable ==
    SectorTable(TRUE, TRUE,
                <<SectorRow("t1", Num(20)), SectorRow("t2", Num(0 - 20)), SectorRow("t3", Num(20)),
                  SectorRow("t4", Num(5)), SectorRow("t5", Num(0 - 20)), SectorRow("t6", Num(0)),
                  SectorRow("t7", Num(5))>>)

SectorTables ==
    {SectorTable(hc, hn, r) : hc \in BOOLEAN, hn \in BOOLEAN,
                              r \in SeqsUpTo(SectorRows, MaxSectorRows)}
    \cup LongSectorTables \cup {SevenSectorTable}

MarginRow(date, bal) == [date |-> date, bal |-> bal]

MarginTable(hd, hb, rows) == [kind |-> "table", hasDate |-> hd, hasBalance |-> hb, rows |-> rows]

MarginRows ==
    {MarginRow(d, b) : d \in {1, 2},
                       b \in {Num(0), Num(1), Num(250), Num(300), Num(350), Num(351), Num(34960),
                             Num(35040),
                             BadCell}}

MarginTables ==
    {MarginTable(hd, hb, r) : hd \in BOOLEAN, hb \in BOOLEAN,
                              r \in SeqsUpTo(MarginRows, MaxMarginRows)}

SseTable(hi, rows, cols) == [kind |-> "table", hasItem |-> hi, rows |-> rows, cols |-> cols]

SseTables ==
    {SseTable(TRUE, <<[item |-> "other", stock |-> Num(9)], [item |-> "total_cap", stock |-> c]>>, <<>>) :
        c \in {Num(0), Num(6000), Num(10000), Num(1000000), Missing, BadCell}}
    \cup {SseTable(hi, <<[item |-> "other", stock |-> Num(9)]>>, cols) :
            hi \in BOOLEAN,
            cols \in {<<>>, <<[capname |-> FALSE, numeric |-> TRUE, sum |-> 5]>>,
                      <<[capname |-> TRUE, numeric |-> TRUE, sum |-> 6000]>>,
                      <<[capname |-> TRUE, numeric |-> FALSE, sum |-> 0]>>}}

CapText(v) == [s |-> "num", v |-> v, commas |-> TRUE, unit |-> TRUE]

SzseRows ==
    {[stock |-> st, cap |-> c] : st \in BOOLEAN,
                                 c \in {[s |-> "empty"], [s |-> "bad"], CapText(4000)}}

SzseAnswers ==
    {[kind |-> "raise"], [kind |-> "json", isList |-> FALSE, rows |-> <<>>],
     [kind |-> "json", isList |-> TRUE, rows |-> <<>>]}
    \cup {[kind |-> "json", isList |-> TRUE, rows |-> r] : r \in SeqsUpTo(SzseRows, MaxSzseRows)}

NewsItem(i) == [title |-> i, snippet |-> i]

Resp(results) == [kind |-> "resp", results |-> results]

Text(pad, body) == [kind |-> "text", text |-> [pad |-> pad, body |-> body]]

Bool(v) == [kind |-> "bool", v |-> v]

\* every capability gives nothing and nothing is configured
QuietD ==
    [index_spot |-> {EmptyDf}, yf |-> {[kind |-> "ticker_raise"]},
     a_spot |-> {EmptyDf}, sector |-> {EmptyDf},
     margin |-> {EmptyDf}, sse_summary |-> {EmptyDf}, szse |-> {Raise},
     search |-> {Raise}, avail |-> {Bool(FALSE)}, gen |-> {Raise},
     config |-> {[search |-> FALSE, analyzer |-> "none"]}]

\* a whole run: each capability raises or gives a value, and the index batch
\* source can also give an empty table
RunD ==
    [index_spot |-> {Raise, EmptyDf, SubsetTable({1, 3, 5})},
     yf |-> {[kind |-> "ticker_raise"], Hist(<<Point(Num(100)), Point(Num(102))>>)},
     a_spot |-> {Raise,
                 StatTable(TRUE, TRUE, <<StatRow(Num(100), Num(HundredMillion)),
                                         StatRow(Num(0 - 30), Num(HundredMillion))>>)},
     sector |-> {Raise,
                 SectorTable(TRUE, TRUE, <<SectorRow("a", Num(10)), SectorRow("b", Num(0 - 10))>>)},
     margin |-> {Raise, MarginTable(TRUE, TRUE, <<MarginRow(1, Num(350))>>)},
     sse_summary |-> {Raise,
                      SseTable(TRUE, <<[item |-> "total_cap", stock |-> Num(6000)]>>, <<>>)},
     szse |-> {Raise,
               [kind |-> "json", isList |-> TRUE,
                rows |-> <<[stock |-> TRUE, cap |-> CapText(4000)]>>]},
     search |-> {Raise, Resp(<<NewsItem(1)>>)},
     avail |-> {Raise, Bool(TRUE), Bool(FALSE)},
     gen |-> {Raise, None, Text(FALSE, ""), Text(TRUE, ""), Text(FALSE, "prose"),
             Text(TRUE, "prose")},
     config |-> {[search |-> sv, analyzer |-> an] :
                    sv \in BOOLEAN, an \in {"none", "openai", "gemini"}}]

\* _call_akshare_with_retry on its own
RetryD == [rs \in RetrySources |-> RunD[rs] \cup {None, EmptyDf}]

\* the index stage in detail
IndicesD ==
    [QuietD EXCEPT !.index_spot = {Raise, None, EmptyDf} \cup IndexTables,
                   !.yf = YfOutcomes]

\* the breadth stage in detail
StatisticsD == [QuietD EXCEPT !.a_spot = {Raise, None, EmptyDf} \cup StatTables]

\* the sector stage in detail
SectorsD == [QuietD EXCEPT !.sector = {Raise, None, EmptyDf} \cup SectorTables]

\* the leverage stage in detail
LeverageD ==
    [QuietD EXCEPT !.margin = {Raise, None, EmptyDf} \cup MarginTables,
                   !.sse_summary = {Raise, EmptyDf} \cup SseTables,
                   !.szse = SzseAnswers]

\* the leverage stage in detail, followed by the news and review stages
ReviewD ==
    [LeverageD EXCEPT !.config = {[search |-> sv, analyzer |-> an] :
                                     sv \in BOOLEAN, an \in {"none", "openai"}},
                      !.avail = {Raise, Bool(TRUE), Bool(FALSE)},
                      !.gen = {Raise, Text(FALSE, "prose")}]

(***************************************************************************)
(* Specifications.                                                         *)
(***************************************************************************)
\* MarketAnalyzer(search_service, analyzer), then run_daily_review is entered
InitD(D) ==
    /\ pc = "indices"
    /\ cfg \in D.config
    /\ overview = DefaultOverview
    /\ retry = IdleRetry
    /\ loc = NoLoc
    /\ calls = NoCalls
    /\ news = <<>>
    /\ prompt = NoPrompt
    /\ report = NoReport

Init == InitD(RunD)

\* run_daily_review, lines 861-881
Next ==
    \/ RetryStep(RunD)
    \/ IndicesStep(RunD)
    \/ StatisticsStep
    \/ SectorStep
    \/ LeverageStep(RunD)
    \/ NewsStep(RunD)
    \/ ReviewStep(RunD)

Spec == Init /\ [][Next]_vars

\* _call_akshare_with_retry called on its own with any attempts argument
InitRetry ==
    /\ pc = "retry"
    /\ cfg \in QuietD.config
    /\ overview = DefaultOverview
    /\ \E n \in RetrySources, a \in 0..MaxAttempts : retry = StartRetry(n, a)
    /\ loc = NoLoc
    /\ calls = NoCalls
    /\ news = <<>>
    /\ prompt = NoPrompt
    /\ report = NoReport

NextRetry == RetryStep(RetryD)

SpecRetry == InitRetry /\ [][NextRetry]_vars

\* _get_main_indices
InitIndices == InitD(IndicesD)

NextIndices == RetryStep(IndicesD) \/ IndicesStep(IndicesD)

SpecIndices == InitIndices /\ [][NextIndices]_vars

\* get_market_overview up to the end of _get_market_statistics
InitStatistics == InitD(StatisticsD)

NextStatistics == RetryStep(StatisticsD) \/ IndicesStep(StatisticsD) \/ StatisticsStep

SpecStatistics == InitStatistics /\ [][NextStatistics]_vars

\* get_market_overview up to the end of _get_sector_rankings
SpecSectors ==
    /\ InitD(SectorsD)
    /\ [][\/ RetryStep(SectorsD)
          \/ IndicesStep(SectorsD)
          \/ StatisticsStep
          \/ SectorStep]_vars

\* run_daily_review with the leverage sources in detail
SpecReview ==
    /\ InitD(ReviewD)
    /\ [][\/ RetryStep(ReviewD)
          \/ IndicesStep(ReviewD)
          \/ StatisticsStep
          \/ SectorStep
          \/ LeverageStep(ReviewD)
          \/ NewsStep(ReviewD)
          \/ ReviewStep(ReviewD)]_vars

\* a whole run in which each external call returns or raises: the tables
\* returned are empty ones except for the index batch, and a history is usable
TerminationD ==
    [RunD EXCEPT !.a_spot = {Raise, EmptyDf},
                 !.sector = {Raise, EmptyDf},
                 !.margin = {Raise, EmptyDf},
                 !.sse_summary = {Raise, EmptyDf},
                 !.search = {Raise, Resp(<<>>)},
                 !.gen = {Raise, Text(FALSE, "prose")},
                 !.config = {[search |-> sv, analyzer |-> an] :
                                sv \in BOOLEAN, an \in {"none", "openai"}}]

\* run_daily_review, lines 861-881, as one sequential activation
NextTermination ==
    \/ RetryStep(TerminationD)
    \/ IndicesStep(TerminationD)
    \/ StatisticsStep
    \/ SectorStep
    \/ LeverageStep(TerminationD)
    \/ NewsStep(TerminationD)
    \/ ReviewStep(TerminationD)

\* the interpreter keeps executing the one thread of the run: a statement that
\* can be executed is executed
SpecTermination ==
    InitD(TerminationD) /\ [][NextTermination]_vars /\ WF_vars(NextTermination)

\* get_market_overview up to the end of _get_bull_market_indicator
InitLeverage == InitD(LeverageD)

NextLeverage ==
    \/ RetryStep(LeverageD)
    \/ IndicesStep(LeverageD)
    \/ StatisticsStep
    \/ SectorStep
    \/ LeverageStep(LeverageD)

SpecLeverage == InitLeverage /\ [][NextLeverage]_vars


(***************************************************************************)
(* Properties.                                                             *)
(***************************************************************************)
IsCall(e) == e.ev = "call"

CallEvents(log) == SelectSeq(log, IsCall)

Codes(indices) == [i \in 1..Len(indices) |-> indices[i].code]

\* C1: run_daily_review always returns a report and never raises, whatever each
\* external capability does (is_available and generate of the text generator
\* included): no run ends with an exception propagating to the caller, and a run
\* that ends has returned a report text.
C1_AlwaysReturnsReport ==
    /\ pc # "raised"
    /\ pc = "done" => report.kind \in {"generated", "template"}

\* C2: generate_market_review ends in exactly one of two ways: it returns the
\* generated text if and only if a generator is configured, says it is available,
\* and its single generate call returns non-empty text without raising; in every
\* other case it returns the template report.  generate is invoked at most once,
\* and never when the generator is absent or unavailable.
C2_TwoTerminalPaths ==
    /\ calls["generate"] <= 1
    /\ (cfg.analyzer = "none" => calls["generate"] = 0)
    /\ (loc.stage = "review" /\ ~(loc.avail.kind = "bool" /\ loc.avail.v)
          => calls["generate"] = 0)
    /\ (loc.stage = "review" /\ pc # "generate") =>
         LET available == cfg.analyzer # "none" /\ loc.avail.kind = "bool" /\ loc.avail.v
             \* the answer is text with prose in it
             hasProse  == available /\ loc.gen.kind = "text" /\ loc.gen.text.body # ""
             \* the answer is text of white space only
             blank     == /\ available /\ loc.gen.kind = "text"
                          /\ loc.gen.text.body = "" /\ loc.gen.text.pad
         IN /\ report.kind \in {"generated", "template"}
            /\ (hasProse => report.kind = "generated"
                            /\ report.text.body = loc.gen.text.body)
            /\ (~hasProse /\ ~blank => report.kind = "template")

\* C3: after _get_bull_market_indicator, if the margin balance and the total
\* market cap fetched are both strictly positive, the snapshot holds them and
\* margin_ratio is margin_balance / total_market_cap * 100 rounded to two
\* decimals (the nearest hundredth of the exact quotient); otherwise
\* margin_balance, total_market_cap, margin_ratio and is_bull_top_warning keep
\* their defaults.  A nonzero ratio or a warning never occurs without both
\* operands strictly positive.
C3_LeverageSnapshot ==
    /\ (overview.margin_ratio # 0 \/ overview.is_bull_top_warning)
          => (overview.margin_balance > 0 /\ overview.total_market_cap > 0)
    /\ (pc = "news" /\ loc.stage = "leverage") =>
         IF loc.margin > 0 /\ loc.sse + loc.szse > 0
         THEN /\ overview.margin_balance = loc.margin
              /\ overview.total_market_cap = loc.sse + loc.szse
              /\ 2 * Abs(overview.margin_ratio * overview.total_market_cap
                         - 10000 * overview.margin_balance) <= overview.total_market_cap
         ELSE /\ overview.margin_balance = 0
              /\ overview.total_market_cap = 0
              /\ overview.margin_ratio = 0
              /\ overview.is_bull_top_warning = FALSE

\* a run that computed the ratio from a balance of 350 and a cap of 10000
C3_Witness ==
    /\ pc = "news" /\ loc.stage = "leverage"
    /\ loc.margin = 350 /\ loc.sse = 6000 /\ loc.szse = 4000
    /\ overview.margin_ratio = 350

\* C4: the warning threshold is strict: with margin balance 350 and total cap
\* 10000 the ratio is exactly 3.5 and the warning flag is false; with balance 351
\* and cap 10000 the ratio is 3.51 and the flag is true.
C4_StrictThreshold ==
    (pc = "news" /\ loc.stage = "leverage" /\ loc.total = 10000) =>
        /\ (loc.margin = 350 =>
              overview.margin_ratio = 350 /\ overview.is_bull_top_warning = FALSE)
        /\ (loc.margin = 351 =>
              overview.margin_ratio = 351 /\ overview.is_bull_top_warning = TRUE)

\* the tracked codes a table holds a row for, when reading it raises nothing
CleanTable(df) ==
    IsData(df) /\ df.hasCode /\ \A i \in 1..Len(df.rows) : ~RowRaises(df.rows[i])

RECURSIVE PresentCodes(_, _)
PresentCodes(df, k) ==
    IF k > Len(MAIN_INDICES) THEN <<>>
    ELSE (IF \E i \in 1..Len(df.rows) : df.rows[i].code = MAIN_INDICES[k]
          THEN <<MAIN_INDICES[k]>> ELSE <<>>) \o PresentCodes(df, k + 1)

\* C5: _get_main_indices consults the secondary source if and only if the
\* primary source yields no index (it returned nothing, raised on every attempt,
\* or matched none of the tracked codes).  When the primary matches only some of
\* the tracked codes, the secondary source is not consulted at all and the result
\* holds exactly the matched codes.
C5_FallbackIffPrimaryEmpty ==
    /\ (loc.stage = "indices" => loc.runs <= 1)
    /\ pc = "idx_return" =>
         /\ (loc.runs > 0 <=> loc.primary = <<>>)
         /\ (loc.runs = 0 <=> calls["yf_ticker"] = 0)
         /\ (loc.primary # <<>> =>
               /\ calls["yf_history"] = 0
               /\ loc.tried = <<>>
               /\ loc.indices = loc.primary)
         /\ (~IsData(loc.df) => loc.runs = 1)
         /\ (CleanTable(loc.df) =>
               /\ Codes(loc.primary) = PresentCodes(loc.df, 1)
               /\ (loc.runs > 0 <=> PresentCodes(loc.df, 1) = <<>>))

\* the primary matched three of the six tracked codes and the call returns them
C5_Witness ==
    /\ pc = "idx_return"
    /\ Len(loc.primary) = 3
    /\ Len(loc.indices) = 3
    /\ loc.runs = 0

\* C6: in _get_indices_from_yfinance a failure of any step of one index's lookup
\* (creating the handle, fetching the history, reading the fields) only omits that
\* index: every tracked code is still looked up, and every index whose own lookup
\* succeeds with a non-empty history is in the result.
C6_FailureOmitsOnlyThatIndex ==
    (pc = "idx_return" /\ loc.runs > 0) =>
        /\ loc.tried = MAIN_INDICES
        /\ {loc.indices[i].code : i \in 1..Len(loc.indices)} = loc.good

\* C7: _call_akshare_with_retry invokes fn at most attempts times, stops at the
\* first invocation that does not raise and returns its value unchanged (an empty
\* table included), returns None when every invocation raised, and always returns.
C7_RetryContract ==
    /\ (retry.st # "idle" =>
          /\ Len(CallEvents(retry.log)) <= retry.attempts
          /\ calls[retry.name] = Len(CallEvents(retry.log)))
    /\ (retry.st \in {"call", "sleep"} => ENABLED NextRetry)
    /\ retry.st = "ret" =>
         LET cs == CallEvents(retry.log)
             n  == Len(cs)
         IN /\ \A i \in 1..(n - 1) : cs[i].out.kind = "raise"
            /\ IF n > 0 /\ cs[n].out.kind # "raise"
               THEN retry.result = cs[n].out
               ELSE n = retry.attempts /\ retry.result = None

\* with attempts = 3, the first invocation raised and the second returned an
\* empty table, which is the result
C7_Witness ==
    /\ retry.st = "ret"
    /\ retry.attempts = 3
    /\ Len(CallEvents(retry.log)) = 2
    /\ retry.result = EmptyDf

\* min(2^k, 5) written out for the attempts explored
ExpectedWait(k) == IF k = 1 THEN 2 ELSE IF k = 2 THEN 4 ELSE 5

\* C8: after a failed attempt k that is not the last, exactly one wait of
\* min(2^k, 5) occurs before attempt k+1 begins; there is no wait before the first
\* attempt, after a successful attempt, or after the final failed attempt.
C8_BackoffOrdering ==
    LET log == retry.log
        n   == Len(log)
    IN /\ (n > 0 => log[1].ev = "call" /\ log[1].attempt = 1)
       /\ \A i \in 1..n :
            IF log[i].ev = "sleep"
            THEN /\ i > 1
                 /\ log[i - 1].ev = "call"
                 /\ log[i - 1].out.kind = "raise"
                 /\ log[i - 1].attempt < retry.attempts
                 /\ log[i].secs = ExpectedWait(log[i - 1].attempt)
                 /\ (i < n => log[i + 1].ev = "call"
                              /\ log[i + 1].attempt = log[i - 1].attempt + 1)
            ELSE /\ (log[i].out.kind # "raise" => i = n)
                 /\ (log[i].out.kind = "raise" /\ log[i].attempt = retry.attempts => i = n)
                 /\ (log[i].out.kind = "raise" /\ log[i].attempt < retry.attempts /\ i < n
                       => log[i + 1].ev = "sleep")
                 /\ (i > 1 => log[i - 1].ev = "sleep")
       /\ (retry.st = "ret" /\ n > 0 => log[n].ev = "call")

\* four attempts that all raised: waits of 2, 4 and 5, and none after the last
C8_Witness ==
    /\ retry.st = "ret"
    /\ retry.attempts = 4
    /\ Len(retry.log) = 7
    /\ retry.log[6].ev = "sleep" /\ retry.log[6].secs = 5
    /\ retry.log[7].ev = "call" /\ retry.log[7].out.kind = "raise"

\* C9: every index returned by _get_main_indices has a nonzero amplitude only if
\* its previous close is strictly positive; a row whose previous close is 0 or
\* missing gives amplitude 0.
C9_AmplitudeNeedsPrevClose ==
    /\ \A i \in 1..Len(overview.indices) :
         overview.indices[i].amplitude.num # 0 => overview.indices[i].prev_close > 0
    /\ pc = "idx_return" =>
         \A i \in 1..Len(loc.indices) :
            /\ loc.indices[i].amplitude.den > 0
            /\ (loc.indices[i].amplitude.num # 0 => loc.indices[i].prev_close > 0)
            /\ (loc.indices[i].prev_close <= 0 => loc.indices[i].amplitude = RatZero)

\* the primary source gave a row with previous close 0 and high above low
C9_Witness ==
    /\ pc = "idx_return"
    /\ loc.runs = 0
    /\ \E i \in 1..Len(loc.indices) :
         /\ loc.indices[i].prev_close = 0
         /\ loc.indices[i].high > loc.indices[i].low
         /\ loc.indices[i].amplitude = RatZero

\* the changes a row can carry, in tenths of a percent
ChangeRange == (0 - 1000)..1000

\* the number of rows whose change is a number of S
RECURSIVE Tally(_, _)
Tally(rows, S) ==
    IF rows = <<>> THEN 0
    ELSE (IF Head(rows).chg.cell = "num" /\ Head(rows).chg.v \in S THEN 1 ELSE 0)
         + Tally(Tail(rows), S)

AnyNumber == ChangeRange
Gt0 == {v \in ChangeRange : v > 0}
Lt0 == {v \in ChangeRange : v < 0}
Eq0 == {0}
Ge99 == {v \in ChangeRange : v >= 99}
LeM99 == {v \in ChangeRange : v <= 0 - 99}

\* C10: _get_market_statistics on a full-market table: up_count, down_count and
\* flat_count are the rows with numeric change > 0, < 0 and = 0, limit_up_count
\* those with change >= 9.9 and limit_down_count those with change <= -9.9; rows
\* whose change is missing or not a number are in no bucket, so up + down + flat
\* is the number of numeric rows, limit_up_count <= up_count and
\* limit_down_count <= down_count.  For the changes
\* [10.0, 9.9, 5, 0, -3, -9.9, -10, NaN] the counts are 3, 3, 1, 2, 2.
C10_BreadthCounts ==
    (pc = "sectors" /\ loc.stage = "statistics") =>
        /\ (IsData(loc.df) /\ loc.df.hasChange) =>
              /\ overview.up_count = Tally(loc.df.rows, Gt0)
              /\ overview.down_count = Tally(loc.df.rows, Lt0)
              /\ overview.flat_count = Tally(loc.df.rows, Eq0)
              /\ overview.limit_up_count = Tally(loc.df.rows, Ge99)
              /\ overview.limit_down_count = Tally(loc.df.rows, LeM99)
              /\ overview.up_count + overview.down_count + overview.flat_count
                    = Tally(loc.df.rows, AnyNumber)
              /\ overview.limit_up_count <= overview.up_count
              /\ overview.limit_down_count <= overview.down_count
        /\ (IsData(loc.df) /\ loc.df.hasChange
              /\ [i \in 1..Len(loc.df.rows) |-> loc.df.rows[i].chg] = ExampleChanges) =>
              /\ overview.up_count = 3 /\ overview.down_count = 3
              /\ overview.flat_count = 1
              /\ overview.limit_up_count = 2 /\ overview.limit_down_count = 2
        /\ ~(IsData(loc.df) /\ loc.df.hasChange) =>
              /\ overview.up_count = 0 /\ overview.down_count = 0
              /\ overview.flat_count = 0
              /\ overview.limit_up_count = 0 /\ overview.limit_down_count = 0

\* the statistics of the example table have been computed
C10_Witness ==
    /\ pc = "sectors" /\ loc.stage = "statistics"
    /\ loc.df = ExampleTable
    /\ overview.up_count = 3 /\ overview.limit_up_count = 2

\* positions of the rows of a sector table whose change is a number
ValidAt(rows) == {i \in 1..Len(rows) : rows[i].chg.cell = "num"}

\* rank of valid row p among the valid rows, largest change first, earlier row
\* first among equal changes
RankTop(rows, p) ==
    1 + Cardinality({q \in ValidAt(rows) :
                        \/ rows[q].chg.v > rows[p].chg.v
                        \/ (rows[q].chg.v = rows[p].chg.v /\ q < p)})

\* the same with the smallest change first
RankBottom(rows, p) ==
    1 + Cardinality({q \in ValidAt(rows) :
                        \/ rows[q].chg.v < rows[p].chg.v
                        \/ (rows[q].chg.v = rows[p].chg.v /\ q < p)})

EntryOf(row) == [name |-> row.name, change_pct |-> row.chg.v]

\* C11: after _get_sector_rankings on a table that has the change and name
\* columns, with n rows whose change is a number, top_sectors holds the min(5, n)
\* valid rows of largest change in descending order and bottom_sectors the
\* min(5, n) of smallest change in ascending order, ties in source row order;
\* neither list is padded or longer than 5.  When the call fails, returns an
\* empty table, or the table lacks a needed column, both lists are empty.
C11_SectorRankings ==
    /\ Len(overview.top_sectors) <= 5 /\ Len(overview.bottom_sectors) <= 5
    /\ (pc = "leverage" /\ loc.stage = "sectors") =>
         IF IsData(loc.df) /\ loc.df.hasChange /\ loc.df.hasName
         THEN LET rows == loc.df.rows
                  n    == Cardinality(ValidAt(rows))
                  m    == IF n < 5 THEN n ELSE 5
              IN /\ Len(overview.top_sectors) = m
                 /\ Len(overview.bottom_sectors) = m
                 /\ \A p \in ValidAt(rows) :
                      /\ RankTop(rows, p) <= m
                           => overview.top_sectors[RankTop(rows, p)] = EntryOf(rows[p])
                      /\ RankBottom(rows, p) <= m
                           => overview.bottom_sectors[RankBottom(rows, p)] = EntryOf(rows[p])
                 /\ \A i, j \in 1..m : i < j =>
                      /\ overview.top_sectors[i].change_pct >= overview.top_sectors[j].change_pct
                      /\ overview.bottom_sectors[i].change_pct
                            <= overview.bottom_sectors[j].change_pct
         ELSE overview.top_sectors = <<>> /\ overview.bottom_sectors = <<>>

\* seven valid rows with ties: five a side, the earlier of tied rows first
C11_Witness ==
    /\ pc = "leverage" /\ loc.stage = "sectors"
    /\ loc.df = SevenSectorTable
    /\ [i \in 1..5 |-> overview.top_sectors[i].name] = <<"t1", "t3", "t4", "t7", "t6">>
    /\ [i \in 1..5 |-> overview.bottom_sectors[i].name] = <<"t2", "t5", "t6", "t4", "t7">>

\* C12: the template report of a snapshot with no indices has an explicit
\* "no data" marker in its index section and no index level; more generally
\* every missing section of the snapshot (no indices, no top or bottom sectors,
\* no leverage data) is rendered as an explicit "no data" placeholder, not as an
\* empty string or a number.
C12_TemplateMarksMissingData ==
    report.kind = "template" =>
        /\ (overview.indices = <<>> => report.indices.kind = "no_data")
        /\ (overview.top_sectors = <<>> => report.top.kind = "no_data")
        /\ (overview.bottom_sectors = <<>> => report.bottom.kind = "no_data")
        /\ (overview.margin_ratio = 0 => report.bull.kind = "no_data")

\* C13: in the template report the mood is classified from the composite index
\* (tracked code sh000001) of the snapshot: strong rally when its percent change
\* is > 1, mild rally when in (0, 1], mild pullback when in (-1, 0), marked
\* decline when <= -1; the mood is "choppy" only when the snapshot has no
\* composite index.
C13_MoodFromCompositeIndex ==
    report.kind = "template" =>
        LET hits == {i \in 1..Len(overview.indices) : overview.indices[i].code = "sh000001"}
        IN IF hits = {} THEN report.mood = "choppy"
           ELSE LET pct == overview.indices[CHOOSE i \in hits : \A j \in hits : i <= j].change_pct
                IN /\ report.mood # "choppy"
                   /\ (pct.num > pct.den => report.mood = "strong_rally")
                   /\ (pct.num > 0 /\ pct.num <= pct.den => report.mood = "mild_rally")
                   /\ (pct.num < 0 /\ pct.num > 0 - pct.den => report.mood = "mild_pullback")
                   /\ (pct.num <= 0 - pct.den => report.mood = "marked_decline")

\* C15: the north-bound-flow field is never populated: it is 0 in every state of
\* a run, and neither the prompt nor the template report renders it as a numeric
\* zero-flow figure: both treat it as "no data".
C15_NorthFlowIsNoData ==
    /\ overview.north_flow = 0
    /\ (prompt.kind # "none" => prompt.north_flow.kind = "no_data")
    /\ (report.kind = "template" => report.north_flow.kind = "no_data")

\* C14 as stated: in the template report of a snapshot with leverage data the
\* banner is chosen by the stored ratio alone: ratio >= 3.5 gives "warning",
\* ratio > 3.0 (and < 3.5) "watch", ratio > 2.5 (and <= 3.0) "normal", otherwise
\* "cool"; a snapshot whose ratio is exactly 3.5 has the "warning" banner.
C14_BannerByStoredRatio ==
    (report.kind = "template" /\ report.bull.kind = "table") =>
        report.bull.status =
            IF overview.margin_ratio >= 350 THEN "warning"
            ELSE IF overview.margin_ratio > 300 THEN "watch"
            ELSE IF overview.margin_ratio > 250 THEN "normal"
            ELSE "cool"

\* C14 as amended: the banner is "warning" exactly when the snapshot's warning
\* flag is set, which is so for every stored ratio above 3.5 and for no stored
\* ratio below 3.5; without the flag a stored ratio > 3.0 gives "watch", > 2.5
\* "normal", otherwise "cool".  A snapshot whose stored ratio is exactly 3.5 has
\* the "warning" or the "watch" banner according to its flag.
C14_BannerByFlagThenRatio ==
    (report.kind = "template" /\ report.bull.kind = "table") =>
        /\ (report.bull.status = "warning" <=> overview.is_bull_top_warning)
        /\ (overview.margin_ratio > 350 => report.bull.status = "warning")
        /\ (overview.margin_ratio < 350 => report.bull.status # "warning")
        /\ (~overview.is_bull_top_warning =>
              report.bull.status =
                  IF overview.margin_ratio > 300 THEN "watch"
                  ELSE IF overview.margin_ratio > 250 THEN "normal"
                  ELSE "cool")

\* a template report of a snapshot whose stored ratio is 3.50 without the flag
\* (balance 34960, cap 1000000: ratio 3.496 before rounding), banner "watch"
C14_Witness ==
    /\ report.kind = "template"
    /\ overview.margin_ratio = 350
    /\ ~overview.is_bull_top_warning
    /\ report.bull.kind = "table"
    /\ report.bull.status = "watch"

\* C20: the leverage indicator is reported as "no data" exactly when an input
\* was unavailable: in the prompt block and in the template report the
\* placeholder is rendered if and only if margin balance or total market cap was
\* not strictly positive (the snapshot stores the two inputs exactly when both
\* are); whenever both are strictly positive the values are shown, and a ratio
\* is never presented as 0%.
C20_NoDataIffInputMissing ==
    LET bothPositive == overview.margin_balance > 0 /\ overview.total_market_cap > 0
    IN /\ (report.kind = "template" =>
             /\ (report.bull.kind = "no_data" <=> ~bothPositive)
             /\ (report.bull.kind = "table" => report.bull.margin_ratio # 0))
       /\ (prompt.kind = "prompt" =>
             /\ (prompt.margin.kind = "no_data" <=> ~bothPositive)
             /\ (prompt.margin.kind = "values" => prompt.margin.margin_ratio # 0))

\* the results of the answers, in order, one after the other
RECURSIVE Concatenated(_)
Concatenated(answers) ==
    IF answers = <<>> THEN <<>>
    ELSE (IF Head(answers).kind = "resp" THEN Head(answers).results ELSE <<>>)
         \o Concatenated(Tail(answers))

\* C16: search_market_news without a search capability returns an empty list and
\* issues no query; with one it issues exactly three queries in the fixed order
\* (review, trend, hot sectors), each asking for at most 3 results, and returns
\* the results of the three answers concatenated in query order, nothing dropped
\* or reordered; an exception of the capability does not propagate.
C16_ThreeQueriesConcatenated ==
    (pc = "review" /\ loc.stage = "news") =>
        IF ~cfg.search
        THEN news = <<>> /\ loc.requests = <<>> /\ calls["search"] = 0
        ELSE /\ calls["search"] = 3
             /\ [i \in 1..Len(loc.requests) |-> loc.requests[i].topic]
                   = <<"review", "trend", "hot_sectors">>
             /\ \A i \in 1..Len(loc.requests) : loc.requests[i].max_results <= 3
             /\ news = Concatenated(loc.answers)

\* a template report with its trailing time line left out
WithoutStamp(r) == [r EXCEPT !.time = "left out"]

Terminated == pc \in {"done", "raised"}

\* the codes of a sequence, each at most once
NoRepeat(codes) == \A i, j \in 1..Len(codes) : codes[i] = codes[j] => i = j

\* the invocations made so far are within the limits of the loops: range(1, 3)
\* of line 149, the one requests.get of _get_szse_market_cap, one history per
\* entry of MAIN_INDICES, one search per query and one generate_content
CallBounds ==
    /\ \A rs \in RetrySources : calls[rs] <= 2
    /\ calls["szse_web"] <= 1
    /\ calls["yf_history"] <= Len(MAIN_INDICES)
    /\ (loc.stage = "indices" =>
          /\ NoRepeat(loc.fetched)
          /\ Len(loc.fetched) = calls["yf_history"]
          /\ \A i \in 1..Len(loc.fetched) : loc.fetched[i] = MAIN_INDICES[i])
    /\ calls["search"] <= Len(SearchTopics)
    /\ calls["generate"] <= 1

\* C18: when each external call returns or raises, every run of
\* run_daily_review ends, and at every moment of it each source behind the
\* retrying fetcher has been invoked at most 2 times, the secondary-exchange
\* web endpoint at most once, the history of each tracked index at most once,
\* the news search at most 3 times and the text generator at most once
C18_TerminatesWithBoundedCalls == []CallBounds /\ <>Terminated

C18_Witness ==
    /\ pc = "done"
    /\ \A rs \in RetrySources : calls[rs] = 2
    /\ calls["szse_web"] = 1
    /\ calls["yf_history"] = 6
    /\ calls["search"] = 3
    /\ calls["generate"] = 1

\* C19, as stated: the fallback document has the seven sections of the
\* outline given to the generative path, in the same order: summary, index
\* commentary, capital flow, leverage-indicator analysis, hot-sector
\* interpretation, outlook, risk disclosure
C19_TemplateHasOutlineSections ==
    report.kind = "template" =>
        report.sections = <<"summary", "index_commentary", "capital_flow",
                            "leverage_analysis", "hot_sectors", "outlook", "risk">>

\* C19, amended: for every snapshot the fallback document has six sections of
\* its own, in this order: summary, main indices, breadth statistics, leverage
\* indicator, sector performance, risk disclosure; it has no outlook section,
\* while the outline given to the generative path has the seven sections
C19_TemplateSixSections ==
    /\ report.kind = "template" =>
          /\ report.sections = <<"summary", "indices", "statistics", "leverage",
                                 "sectors", "risk">>
          /\ \A i \in 1..Len(report.sections) : report.sections[i] # "outlook"
    /\ prompt.kind = "prompt" =>
          prompt.outline = <<"summary", "index_commentary", "capital_flow",
                             "leverage_analysis", "hot_sectors", "outlook", "risk">>

C19_Witness ==
    /\ report.kind = "template"
    /\ prompt.kind = "prompt"
    /\ calls["generate"] = 1
    /\ overview.indices # <<>>
    /\ overview.margin_ratio > 0

\* the stages of a run in their order, each with its control locations in the
\* order of the code; the last one is the end of the run
Stages ==
    <<<<"indices", "idx_primary", "yf_loop", "idx_return">>,
      <<"statistics", "stat_df">>,
      <<"sectors", "sector_df">>,
      <<"leverage", "margin_df", "sse_df", "szse", "combine">>,
      <<"news", "news_query">>,
      <<"review", "generate">>,
      <<"done", "raised">>>>

InSeq(x, sq) == \E i \in 1..Len(sq) : sq[i] = x

\* the number of the stage a control location belongs to
StageOf(l) == CHOOSE k \in 1..Len(Stages) : InSeq(l, Stages[k])

\* the position of a control location within its stage
PlaceOf(l) == CHOOSE i \in 1..Len(Stages[StageOf(l)]) : Stages[StageOf(l)][i] = l

\* C21: within one run the index, breadth, sector and leverage stages run in
\* that order, then the news stage, then report synthesis: a stage is entered
\* at its first location and only from the stage before it, once that stage's
\* retrying fetch has returned; control never goes back to an earlier stage or
\* to an earlier location of its stage, so no stage starts before the previous
\* one has finished and none runs twice
C21_StageOrdering ==
    [][/\ InSeq(pc, Stages[StageOf(pc)]) /\ InSeq(pc', Stages[StageOf(pc')])
       /\ IF StageOf(pc') = StageOf(pc)
          THEN PlaceOf(pc') >= PlaceOf(pc)
          ELSE /\ StageOf(pc') = StageOf(pc) + 1
               /\ (StageOf(pc') < Len(Stages) => PlaceOf(pc') = 1)
               /\ retry' = IdleRetry
               /\ (StageOf(pc') <= 5 => prompt' = NoPrompt /\ report' = NoReport)]_vars

\* a run that has gone through every stage with data and returned a report
C21_Witness ==
    /\ pc = "done"
    /\ overview.indices # <<>>
    /\ overview.up_count > 0
    /\ overview.top_sectors # <<>>
    /\ overview.margin_ratio > 0
    /\ news # <<>>
    /\ report.kind = "generated"
    /\ \A c \in Capabilities \ {"yf_ticker", "yf_history"} : calls[c] >= 1

\* the snapshot fields each stage may write, by the number of the stage
Owned ==
    <<{"indices"},
      {"up_count", "down_count", "flat_count", "limit_up_count", "limit_down_count",
       "total_amount"},
      {"top_sectors", "bottom_sectors"},
      {"margin_balance", "total_market_cap", "margin_ratio", "is_bull_top_warning"},
      {}, {}, {}>>

\* C22: each stage writes only its own snapshot fields: the index stage only
\* indices; the breadth stage only the five counts and the total turnover; the
\* sector stage only the two sector lists; the leverage stage only margin
\* balance, total market cap, ratio and warning flag; the news and synthesis
\* stages none, so the snapshot handed to the synthesizer is the same when the
\* report is returned
C22_StagesWriteOwnFields ==
    [][\A f \in DOMAIN overview :
          overview'[f] # overview[f] => f \in Owned[StageOf(pc)]]_vars

\* a snapshot that every stage has written to, as handed on to the news stage
C22_Witness ==
    /\ pc = "news"
    /\ overview.indices # <<>>
    /\ overview.up_count > 0 /\ overview.down_count > 0 /\ overview.total_amount > 0
    /\ overview.top_sectors # <<>> /\ overview.bottom_sectors # <<>>
    /\ overview.margin_balance > 0 /\ overview.total_market_cap > 0
    /\ overview.margin_ratio > 0
    /\ overview.north_flow = 0 /\ overview.margin_data_date = "" /\ overview.date = "today"

\* C23: a quote built from the secondary source is like one built from the
\* primary source except for its traded value, which is 0: every quote that
\* _get_main_indices returns, from whichever source, with a previous close > 0
\* has amplitude (high - low) / prev_close * 100; and a secondary history of a
\* single point gives previous = current, so change and percent change 0
C23_SecondaryQuoteEquivalent ==
    /\ pc = "idx_return" =>
          \A i \in 1..Len(loc.indices) :
             LET q == loc.indices[i]
             IN /\ (q.prev_close > 0 =>
                      q.amplitude = Rat((q.high - q.low) * 100, q.prev_close))
                /\ (loc.runs > 0 => q.amount = 0)
    /\ \A h \in Histories :
          (Len(h.pts) = 1 /\ ~HistoryRaises(h.pts)) =>
              LET q == IndexFromHistory(MAIN_INDICES[1], h.pts)
              IN q.prev_close = q.current /\ q.change = 0 /\ q.change_pct = RatZero

\* C24: the warning flag agrees with the stored ratio: in every snapshot
\* is_bull_top_warning is true if and only if the stored margin_ratio, rounded
\* to 2 decimals, is strictly greater than 3.5, so no report shows a ratio of
\* 3.50% with a triggered warning or a ratio above 3.50% without one
C24_FlagAgreesWithStoredRatio ==
    /\ (overview.is_bull_top_warning <=> overview.margin_ratio > 350)
    /\ (report.kind = "template" /\ report.bull.kind = "table") =>
          /\ ~(report.bull.margin_ratio = 350 /\ report.bull.status = "warning")
          /\ (report.bull.margin_ratio > 350 => report.bull.status = "warning")

\* C25: a leverage ratio is computed from a complete total market cap only: the
\* stored total_market_cap is the sum of a strictly positive primary-exchange
\* sub-total and a strictly positive secondary-exchange sub-total; when one of
\* the two sub-fetches yields 0 and the other succeeds, no ratio is computed
\* and the leverage fields keep their defaults
C25_RatioFromCompleteCap ==
    (pc = "news" /\ loc.stage = "leverage") =>
        /\ (overview.total_market_cap > 0 =>
              /\ loc.sse > 0 /\ loc.szse > 0
              /\ overview.total_market_cap = loc.sse + loc.szse)
        /\ ((loc.sse > 0 /\ loc.szse = 0) \/ (loc.sse = 0 /\ loc.szse > 0) =>
              /\ overview.margin_balance = 0 /\ overview.total_market_cap = 0
              /\ overview.margin_ratio = 0 /\ ~overview.is_bull_top_warning)

\* the tracked codes in their canonical order
CanonicalCodes == <<"sh000001", "sz399001", "sz399006", "sh000688", "sh000016", "sh000300">>

\* the place of a tracked code in the canonical order
CanonicalPlace(code) == CHOOSE k \in 1..Len(CanonicalCodes) : CanonicalCodes[k] = code

\* C26: within one call of _get_main_indices the fallback
\* _get_indices_from_yfinance runs at most once, whether it is reached from the
\* empty-primary branch or from the exception handler, so the history of each
\* tracked index is fetched at most once, and the list returned has at most 6
\* entries, no code twice, in the canonical order of the tracked codes
C26_FallbackAtMostOnce ==
    loc.stage = "indices" =>
        /\ loc.runs <= 1
        /\ (loc.runs = 1 <=> loc.via \in {"normal", "handler"})
        /\ NoRepeat(loc.fetched)
        /\ calls["yf_history"] = Len(loc.fetched)
        /\ Len(loc.indices) <= 6
        /\ \A i \in 1..Len(loc.indices) : InSeq(loc.indices[i].code, CanonicalCodes)
        /\ \A i, j \in 1..Len(loc.indices) :
              i < j => CanonicalPlace(loc.indices[i].code) < CanonicalPlace(loc.indices[j].code)

\* the fallback reached from the exception handler has fetched the six
\* histories and gives six quotes
C26_Witness ==
    /\ pc = "idx_return"
    /\ loc.via = "handler"
    /\ loc.runs = 1
    /\ Len(loc.fetched) = 6
    /\ Codes(loc.indices) = CanonicalCodes

====
